---- MODULE Spec2Model ----
(***************************************************************************)
(* RAG-Mesh: run orchestration, chat session manager and judge.            *)
(*                                                                         *)
(* Scores and thresholds are fixed-point tenths (7 stands for 0.7).        *)
(* Two state machines live in this module:                                 *)
(*   - the judge evaluation (JudgeOrchestrator.evaluate), variables j*;    *)
(*   - the run pipeline (RunOrchestrator.execute_run) over the shared      *)
(*     event list and the in-memory chat session table.                    *)
(***************************************************************************)
EXTENDS Integers, Sequences, FiniteSets, TLC

VARIABLES
    \* ---- judge evaluation ----
    jprofile,       \* JudgeProfile: check name -> CheckConfig
    jphase,         \* position inside JudgeOrchestrator.evaluate
    jpending,       \* tier-A coroutines handed to asyncio.gather, not finished
    jgathered,      \* tier-A check name -> CheckResult once finished
    check_results,  \* the list check_results of evaluate
    jerrored,       \* checks whose evaluation failed with an error
    report,         \* the JudgeReport, or NoReport
    \* ---- run orchestrator / chat manager ----
    sessions,       \* ChatSessionManager.sessions
    events,         \* RunOrchestrator.events (one list per orchestrator)
    files,          \* slot -> events.jsonl of the run in that slot, or NoFile
    runs,           \* slot -> locals of the execute_run call in that slot
    nextRun,        \* number of run ids handed out (uuid4 is fresh)
    nextSid,        \* number of session ids handed out (uuid4 is fresh)
    env,            \* the environment of this behaviour: whether collaborators
                    \* may fail, and the requests that clients send
    \* ---- components called on their own ----
    mgr,            \* the ChatSessionManager call in progress or just returned
    fusion,         \* a FusionModule.fuse_results call: inputs and output
    pack,           \* a ContextCompilerModule.compile_context call
    gen             \* a GenerationModule._create_answer call

jvars == <<jprofile, jphase, jpending, jgathered, check_results, jerrored, report>>
rvars == <<sessions, events, files, runs, nextRun, nextSid, env>>
cvars == <<mgr, fusion, pack, gen>>
vars == <<jprofile, jphase, jpending, jgathered, check_results, jerrored, report,
          sessions, events, files, runs, nextRun, nextSid, env,
          mgr, fusion, pack, gen>>

----------------------------------------------------------------------------
\* Bounds of the model

MaxEnabledChecks == 2
MaxRuns == 4
MaxSessions == 2
MaxTurnTokens == 3
MaxHistoryTurns == 2
CompactionThreshold == 2
MaxTurns == 3
MaxChunks == 3
MaxContextTokens == 4
MaxCitations == 2

----------------------------------------------------------------------------
\* Generic helpers

Range(s) == {s[i] : i \in 1..Len(s)}

Max(a, b) == IF a >= b THEN a ELSE b

Min(a, b) == IF a <= b THEN a ELSE b

\* s[-n:] of Python for n >= 1
LastN(s, n) == IF Len(s) <= n THEN s ELSE SubSeq(s, Len(s) - n + 1, Len(s))

\* s[:-n] of Python for n >= 1
DropLastN(s, n) == IF Len(s) <= n THEN <<>> ELSE SubSeq(s, 1, Len(s) - n)

----------------------------------------------------------------------------
\* Judge: checks and report

TierA == <<"citation_coverage", "relevance", "toxicity", "pii_leakage", "bias">>
TierB == <<"groundedness", "hallucination", "consistency", "contradiction">>
CheckNames == Range(TierA) \cup Range(TierB)

\* checks that call the LLM inside a try/except of their own
LLMChecks == CheckNames \ {"citation_coverage", "pii_leakage"}

Scores == {0, 5, 10}
Thresholds == {7}

NoReport == [decision |-> "NONE"]
NoResult == [check_name |-> "NONE"]

\* score a check returns from its own except-branch when the LLM call fails
ErrorFallbackScore ==
    [c \in LLMChecks |->
        CASE c \in {"toxicity", "bias"} -> 10
          [] c \in {"consistency", "contradiction"} -> 8
          [] OTHER -> 5]

\* What can happen when check c is evaluated:
\*   score     - evaluate returns this score
\*   llm_error - the LLM call or the parsing of its reply raises inside evaluate
\*   raise     - an exception escapes evaluate or the CheckResult construction
CheckOutcomes(c) ==
    [kind : {"score"}, score : Scores]
      \cup [kind : {"raise"}, score : {0}]
      \cup (IF c \in LLMChecks THEN [kind : {"llm_error"}, score : {0}] ELSE {})

\* check.evaluate: the returned score, or -1 when the exception escapes
CheckEvaluate(c, outcome) ==
    CASE outcome.kind = "score" -> outcome.score
      [] outcome.kind = "llm_error" -> ErrorFallbackScore[c]
      [] OTHER -> -1

\* JudgeOrchestrator._run_check
RunCheckUnguarded(c, config, outcome) ==
    LET score == CheckEvaluate(c, outcome) IN
    IF score < 0
    THEN NoResult
    ELSE [check_name |-> c,
          status |-> IF score >= config.threshold THEN "PASS" ELSE "FAIL",
          score |-> score,
          threshold |-> config.threshold, hard_fail |-> config.hard_fail]

RunCheck(c, config, outcome) ==
    LET score == CheckEvaluate(c, outcome) IN
    IF score < 0
    THEN [check_name |-> c, status |-> "ERROR", score |-> 0,
          threshold |-> config.threshold, hard_fail |-> config.hard_fail]
    ELSE [check_name |-> c,
          status |-> IF score >= config.threshold THEN "PASS" ELSE "FAIL",
          score |-> score,
          threshold |-> config.threshold, hard_fail |-> config.hard_fail]

\* severity of the violation of one failed check
Severity(result) ==
    IF result.hard_fail THEN "high"
    ELSE IF result.score * 10 < result.threshold * 7 THEN "medium"
    ELSE "low"

RECURSIVE Violations(_)
Violations(results) ==
    IF results = <<>> THEN <<>>
    ELSE (IF Head(results).status = "FAIL"
          THEN <<[check_name |-> Head(results).check_name,
                  severity |-> Severity(Head(results))]>>
          ELSE <<>>) \o Violations(Tail(results))

RECURSIVE ScoreSum(_)
ScoreSum(results) ==
    IF results = <<>> THEN 0 ELSE Head(results).score + ScoreSum(Tail(results))

\* JudgeOrchestrator._compile_report
CompileReportNoBlock(results) ==
    LET passed == \A i \in 1..Len(results) : results[i].status # "FAIL" IN
    [decision |-> IF ~passed THEN "FAIL_RETRYABLE" ELSE "PASS",
     checks |-> results,
     violations |-> Violations(results),
     score_sum |-> ScoreSum(results),
     passed |-> passed]

CompileReport(results) ==
    LET passed == \A i \in 1..Len(results) : results[i].status # "FAIL"
        blocked == \E i \in 1..Len(results) :
                       results[i].status = "FAIL" /\ results[i].hard_fail
    IN
    [decision |-> IF blocked THEN "FAIL_BLOCKED"
                  ELSE IF ~passed THEN "FAIL_RETRYABLE"
                  ELSE "PASS",
     checks |-> results,
     violations |-> Violations(results),
     score_sum |-> ScoreSum(results),
     passed |-> passed]

----------------------------------------------------------------------------
\* Judge: JudgeOrchestrator.evaluate as a state machine

\* the profiles of the model: at most MaxEnabledChecks checks enabled, any
\* subset of them hard_fail
JudgeProfiles ==
    {[c \in CheckNames |->
        [enabled |-> c \in E, threshold |-> t, hard_fail |-> c \in H]] :
       <<E, H, t>> \in {x \in (SUBSET CheckNames) \X (SUBSET CheckNames) \X Thresholds :
                           /\ Cardinality(x[1]) <= MaxEnabledChecks
                           /\ x[2] \subseteq x[1]}}

EnabledOf(tier) == {c \in Range(tier) : jprofile[c].enabled}

\* the results of a tier in submission order
RECURSIVE InOrder(_, _)
InOrder(tier, got) ==
    IF tier = <<>> THEN <<>>
    ELSE (IF got[Head(tier)] # NoResult THEN <<got[Head(tier)]>> ELSE <<>>)
           \o InOrder(Tail(tier), got)

\* first enabled tier-B check at position >= i, or "compile"
RECURSIVE NextB(_)
NextBLastFirst(i) ==
    IF \E j \in i..Len(TierB) : jprofile[TierB[j]].enabled
    THEN TierB[CHOOSE j \in i..Len(TierB) :
                  /\ jprofile[TierB[j]].enabled
                  /\ \A l \in i..Len(TierB) : jprofile[TierB[l]].enabled => l <= j]
    ELSE "compile"

NextB(i) ==
    IF i > Len(TierB) THEN "compile"
    ELSE IF jprofile[TierB[i]].enabled THEN TierB[i]
    ELSE NextB(i + 1)

IndexB(c) == CHOOSE i \in 1..Len(TierB) : TierB[i] = c

JInit ==
    /\ jprofile \in JudgeProfiles
    /\ jphase = "idle"
    /\ jpending = {}
    /\ jgathered = [c \in Range(TierA) |-> NoResult]
    /\ check_results = <<>>
    /\ jerrored = {}
    /\ report = NoReport

\* evaluate builds the tier-A coroutines and hands them to asyncio.gather
JStartTierA ==
    /\ jphase = "idle"
    /\ jpending' = EnabledOf(TierA)
    /\ jphase' = "tierA"
    /\ UNCHANGED <<jprofile, jgathered, check_results, jerrored, report>>

\* one tier-A _run_check coroutine finishes
JFinishA(c) ==
    /\ jphase = "tierA"
    /\ c \in jpending
    /\ \E outcome \in CheckOutcomes(c) :
         /\ jgathered' = [jgathered EXCEPT ![c] = RunCheck(c, jprofile[c], outcome)]
         /\ jerrored' = IF outcome.kind = "score" THEN jerrored ELSE jerrored \cup {c}
    /\ jpending' = jpending \ {c}
    /\ UNCHANGED <<jprofile, jphase, check_results, report>>

\* gather returns: the results are appended in submission order
JGather ==
    /\ jphase = "tierA"
    /\ jpending = {}
    /\ check_results' = InOrder(TierA, jgathered)
    /\ jphase' = NextB(1)
    /\ UNCHANGED <<jprofile, jpending, jgathered, jerrored, report>>

\* the next enabled tier-B check is awaited
JStartB(c) ==
    /\ jphase = c
    /\ c \in Range(TierB)
    /\ jpending = {}
    /\ jpending' = {c}
    /\ UNCHANGED <<jprofile, jphase, jgathered, check_results, jerrored, report>>

JFinishB(c) ==
    /\ jphase = c
    /\ jpending = {c}
    /\ \E outcome \in CheckOutcomes(c) :
         /\ check_results' = Append(check_results, RunCheck(c, jprofile[c], outcome))
         /\ jerrored' = IF outcome.kind = "score" THEN jerrored ELSE jerrored \cup {c}
    /\ jpending' = {}
    /\ jphase' = NextB(IndexB(c) + 1)
    /\ UNCHANGED <<jprofile, jgathered, report>>

JCompile ==
    /\ jphase = "compile"
    /\ report' = CompileReport(check_results)
    /\ jphase' = "done"
    /\ UNCHANGED <<jprofile, jpending, jgathered, check_results, jerrored>>

JNext ==
    \/ JStartTierA
    \/ \E c \in Range(TierA) : JFinishA(c)
    \/ JGather
    \/ \E c \in Range(TierB) : JStartB(c)
    \/ \E c \in Range(TierB) : JFinishB(c)
    \/ JCompile

----------------------------------------------------------------------------
\* Chat session manager

SessionIds == 1..MaxSessions

\* absent key of ChatSessionManager.sessions
NoSession ==
    [present |-> FALSE, turns |-> <<>>, summary |-> "None",
     summary_covers_turns |-> <<>>, total_turns |-> 0, total_tokens |-> 0]

\* ChatSession() with the default ChatHistory
NewSession ==
    [present |-> TRUE, turns |-> <<>>, summary |-> "None",
     summary_covers_turns |-> <<>>, total_turns |-> 0, total_tokens |-> 0]

\* ChatSessionManager.get_session
get_session(tbl, sid) ==
    IF sid \in SessionIds /\ tbl[sid].present THEN tbl[sid] ELSE NoSession

\* ChatSessionManager.create_session; the caller passes the fresh uuid
create_session_unstored(tbl, sid) == tbl

create_session(tbl, sid) == [tbl EXCEPT ![sid] = NewSession]

\* ChatSessionManager.delete_session
delete_session(tbl, sid) ==
    IF sid \in SessionIds /\ tbl[sid].present
    THEN [tbl EXCEPT ![sid] = NoSession]
    ELSE tbl

\* ChatSessionManager.add_turn on a session that exists
add_turn_session_renumbered(session, tokens) ==
    LET turn_number == Len(session.turns) + 1 IN
    [session EXCEPT
        !.turns = Append(@, [turn_number |-> turn_number, tokens |-> tokens]),
        !.total_turns = turn_number,
        !.total_tokens = @ + tokens]

add_turn_session(session, tokens) ==
    LET turn_number == session.total_turns + 1 IN
    [session EXCEPT
        !.turns = Append(@, [turn_number |-> turn_number, tokens |-> tokens]),
        !.total_turns = turn_number,
        !.total_tokens = @ + tokens]

\* ChatSessionManager.add_turn: the table afterwards, whether ValueError was
\* raised, and the returned turn number
add_turn_upsert(tbl, sid, tokens) ==
    LET session == IF sid \in SessionIds /\ ~tbl[sid].present
                   THEN NewSession ELSE get_session(tbl, sid) IN
    IF sid \notin SessionIds
    THEN [sessions |-> tbl, raised |-> TRUE, turn_number |-> 0]
    ELSE [sessions |-> [tbl EXCEPT ![sid] = add_turn_session(session, tokens)],
          raised |-> FALSE,
          turn_number |-> add_turn_session(session, tokens).total_turns]

add_turn(tbl, sid, tokens) ==
    LET session == get_session(tbl, sid) IN
    IF ~session.present
    THEN [sessions |-> tbl, raised |-> TRUE, turn_number |-> 0]
    ELSE [sessions |-> [tbl EXCEPT ![sid] = add_turn_session(session, tokens)],
          raised |-> FALSE,
          turn_number |-> add_turn_session(session, tokens).total_turns]

\* sum(turn.tokens for turn in session.history.turns)
RECURSIVE history_tokens(_)
history_tokens(turns) ==
    IF turns = <<>> THEN 0 ELSE Head(turns).tokens + history_tokens(Tail(turns))

\* the ChatProfile the runs load
RunChatProfile ==
    [compaction_threshold_tokens |-> CompactionThreshold,
     max_history_turns |-> MaxHistoryTurns]

\* needs_compaction of check_and_compact
needs_compaction_for(session, profile) ==
    \/ history_tokens(session.turns) > profile.compaction_threshold_tokens
    \/ Len(session.turns) > profile.max_history_turns

needs_compaction(session) == needs_compaction_for(session, RunChatProfile)

\* keep_turns of _compact_history
keep_turns_unhalved(profile) == Max(1, profile.max_history_turns)

keep_turns_for(profile) == Max(1, profile.max_history_turns \div 2)

keep_turns == keep_turns_for(RunChatProfile)

\* a manager call: what was called, with what, and what came back
NoCall ==
    [op |-> "none", pc |-> "returned", sid |-> 0, profile |-> RunChatProfile,
     before |-> NoSession, table |-> <<>>, kept |-> <<>>, to_summarize |-> <<>>,
     returned |-> FALSE, raised |-> FALSE, turn_number |-> 0, tokens |-> 0,
     ok |-> TRUE]

TurnNumbers(turns) == [i \in 1..Len(turns) |-> turns[i].turn_number]

\* _compact_history once the summarization call has returned (ok) or raised
CompactForgetful(session, kept, dropped, ok) ==
    [session EXCEPT !.summary = IF ok THEN "text" ELSE NoSession.summary,
                    !.summary_covers_turns = IF ok THEN TurnNumbers(dropped) ELSE <<>>,
                    !.turns = kept]

Compact(session, kept, dropped, ok) ==
    IF ok
    THEN [session EXCEPT !.summary = "text",
                         !.summary_covers_turns = TurnNumbers(dropped),
                         !.turns = kept]
    ELSE [session EXCEPT !.turns = kept]

\* ChatSessionManager.check_quit_command: query.strip().lower() == "quit"
Whitespace == {" ", "\t"}

RECURSIVE LStrip(_)
LStrip(q) ==
    IF q # <<>> /\ Head(q) \in Whitespace THEN LStrip(Tail(q)) ELSE q

RECURSIVE RStrip(_)
RStrip(q) ==
    IF q # <<>> /\ q[Len(q)] \in Whitespace THEN RStrip(SubSeq(q, 1, Len(q) - 1)) ELSE q

Strip(q) == RStrip(LStrip(q))

LowerChar(c) ==
    CASE c = "Q" -> "q" [] c = "U" -> "u" [] c = "I" -> "i" [] c = "T" -> "t"
      [] OTHER -> c

Lower(q) == [i \in 1..Len(q) |-> LowerChar(q[i])]

check_quit_command_exact(q) == q = <<"q", "u", "i", "t">>

check_quit_command(q) == Lower(Strip(q)) = <<"q", "u", "i", "t">>

\* the queries of the model, as character sequences
NormalQuery == <<"q", "u", "i", "t", " ", "i", "t">>
QuitQueries == {<<"q", "u", "i", "t">>, <<" ", "Q", "u", "I", "T", "\t">>}
Queries == QuitQueries \cup {NormalQuery}

----------------------------------------------------------------------------
\* Configuration

\* workflows.json: the workflows of the model
Workflows ==
    ("default_workflow" :> [judge |-> TRUE, fail_on_judge_block |-> TRUE, graph |-> TRUE])
    @@ ("no_block" :> [judge |-> TRUE, fail_on_judge_block |-> FALSE, graph |-> FALSE])
    @@ ("no_judge" :> [judge |-> FALSE, fail_on_judge_block |-> TRUE, graph |-> FALSE])

RequestWorkflowIds == DOMAIN Workflows \cup {"unknown_workflow"}

\* ConfigLoader.get_workflow_profile: an unknown id is replaced by the default
get_workflow_profile(id) ==
    IF id \in DOMAIN Workflows THEN Workflows[id] ELSE Workflows["default_workflow"]

----------------------------------------------------------------------------
\* Run orchestrator

Slots == {"a", "b"}
Stages == <<"retrieval", "fusion", "context", "generation", "judge">>
NoFile == <<[run_id |-> 0, event_type |-> "no_file"]>>

Ev(rid, t) == [run_id |-> rid, event_type |-> t]

\* _emit_event for each type of ts in turn
EmitAll(evs, rid, ts) == evs \o [i \in 1..Len(ts) |-> Ev(rid, ts[i])]

\* the locals of an execute_run call; errors, executed, faulted and pre
\* record what happened to it
IdleRun ==
    [pc |-> "idle", run_id |-> 0, mode |-> "query", query |-> <<>>,
     workflow_id |-> "default_workflow", req_session_id |-> 0, session_id |-> 0,
     kept |-> <<>>, to_summarize |-> <<>>, history_compacted |-> FALSE,
     turn_number |-> 0, answer |-> "none", decision |-> "NONE",
     blocked_by_judge |-> FALSE, status |-> "running",
     answer_returned |-> FALSE, report_returned |-> FALSE,
     executed |-> {}, errors |-> {}, faulted |-> FALSE,
     pre |-> NoSession]

Running(s) == runs[s].pc \notin {"idle", "returned"}

\* outcomes of a stage whose exceptions reach execute_run
StageOutcomes == IF env.faults THEN {"ok", "raise"} ELSE {"ok"}

\* outcomes of a stage that also catches failures of its collaborator itself
CatchingStageOutcomes == IF env.faults THEN {"ok", "swallowed", "raise"} ELSE {"ok"}

\* outcomes of the summarization call and of writing events.jsonl
IOOutcomes == IF env.faults THEN BOOLEAN ELSE {TRUE}

\* the judge reports a run can get
RunJudgeReports ==
    {CompileReport(<<RunCheck("citation_coverage",
                              [enabled |-> TRUE, threshold |-> t, hard_fail |-> hf], o)>>) :
        <<t, hf, o>> \in {x \in Thresholds \X BOOLEAN \X CheckOutcomes("citation_coverage") :
                             env.faults \/ x[3].kind = "score"}}

RInit ==
    /\ sessions = [sid \in SessionIds |-> NoSession]
    /\ events = <<>>
    /\ files = [s \in Slots |-> NoFile]
    /\ runs = [s \in Slots |-> IdleRun]
    /\ nextRun = 0
    /\ nextSid = 0

\* a session id of a request that never was the id of a session
UnknownSid == MaxSessions + 1

\* a new call takes the first slot with no call in progress
FreeSlot(s) == ~Running(s) /\ (s = "b" => Running("a"))

\* execute_run up to the first suspension (saving the config snapshot); a
\* request carries no session id (0), an id handed out before, or an unknown
\* id; the quit path does not use the workflow, so one workflow stands for all
StartRun(s) ==
    /\ FreeSlot(s)
    /\ nextRun < MaxRuns
    /\ \E mode \in env.modes, q \in env.queries,
          sid \in env.session_ids, wf \in env.workflow_ids :
         /\ mode = "query" => (q = NormalQuery /\ sid = 0)
         /\ sid \in SessionIds => sid <= nextSid
         /\ q \in QuitQueries => wf = CHOOSE w \in env.workflow_ids : TRUE
         /\ runs' = [runs EXCEPT ![s] =
                [IdleRun EXCEPT !.pc = "config_snapshot",
                                !.run_id = nextRun + 1,
                                !.mode = mode,
                                !.query = q,
                                !.workflow_id = wf,
                                !.req_session_id = sid,
                                !.session_id = sid,
                                !.pre = get_session(sessions, sid)]]
    /\ nextRun' = nextRun + 1
    /\ events' = <<>>
    /\ files' = [files EXCEPT ![s] = NoFile]
    /\ UNCHANGED <<sessions, nextSid, env>>

\* the events that open the pipeline, emitted without suspension
PipelineOpen == <<"run_started", "retrieval_started">>

\* chat mode: quit command
EnterQuit(s) ==
    LET r == runs[s] IN
    /\ r.pc = "config_snapshot"
    /\ r.mode = "chat"
    /\ check_quit_command(r.query)
    /\ sessions' = IF r.session_id # 0 THEN delete_session(sessions, r.session_id)
                   ELSE sessions
    /\ events' = IF r.session_id # 0
                 THEN EmitAll(events, r.run_id, <<"chat_session_terminated">>)
                 ELSE events
    /\ runs' = [runs EXCEPT ![s] = [r EXCEPT !.pc = "returned", !.status = "terminated"]]
    /\ UNCHANGED <<files, nextRun, nextSid, env>>

\* query mode, or chat mode up to the summarization call or to retrieval
EnterPipeline(s) ==
    LET r == runs[s]
        chat == r.mode = "chat"
        resolved == chat /\ get_session(sessions, r.session_id).present
        create == chat /\ ~resolved
        sid == IF create THEN nextSid + 1 ELSE r.session_id
        tbl == IF create THEN create_session(sessions, sid) ELSE sessions
        evs0 == IF create
                THEN EmitAll(events, r.run_id, <<"chat_session_created">>)
                ELSE events
        session == get_session(tbl, sid)
        needs == chat /\ needs_compaction(session)
        summarize == needs /\ Len(session.turns) > keep_turns
        evs1 == IF needs THEN EmitAll(evs0, r.run_id, <<"chat_compacted">>) ELSE evs0
    IN
    /\ r.pc = "config_snapshot"
    /\ chat => ~check_quit_command(r.query)
    /\ create => nextSid < MaxSessions
    /\ sessions' = tbl
    /\ nextSid' = IF create THEN nextSid + 1 ELSE nextSid
    /\ IF summarize
       THEN /\ events' = evs0
            /\ runs' = [runs EXCEPT ![s] =
                   [r EXCEPT !.pc = "summarize", !.session_id = sid,
                             !.to_summarize = DropLastN(session.turns, keep_turns),
                             !.kept = LastN(session.turns, keep_turns)]]
       ELSE /\ events' = EmitAll(evs1, r.run_id, PipelineOpen)
            /\ runs' = [runs EXCEPT ![s] =
                   [r EXCEPT !.pc = "retrieval", !.session_id = sid,
                             !.history_compacted = needs]]
    /\ UNCHANGED <<files, nextRun, env>>

\* the summarization call of _compact_history returns or raises; the session
\* object captured before the call is updated
CompactDone(s) ==
    LET r == runs[s] IN
    /\ r.pc = "summarize"
    /\ \E ok \in IOOutcomes :
         /\ sessions' = IF get_session(sessions, r.session_id).present
                        THEN [sessions EXCEPT ![r.session_id] =
                                 Compact(@, r.kept, r.to_summarize, ok)]
                        ELSE sessions
         /\ runs' = [runs EXCEPT ![s] =
                [r EXCEPT !.pc = "retrieval", !.history_compacted = TRUE,
                          !.faulted = @ \/ ~ok]]
    /\ events' = EmitAll(events, r.run_id, <<"chat_compacted">> \o PipelineOpen)
    /\ UNCHANGED <<files, nextRun, nextSid, env>>

\* the except-branch of execute_run: RUN_FAILED, then the events are saved
Failed(r, stage) ==
    [r EXCEPT !.pc = "save_failed", !.errors = @ \cup {stage},
              !.executed = @ \cup {stage}, !.faulted = TRUE]

\* result of one stage: the locals of the run and the event list
After(r, evs) == [rec |-> r, evs |-> evs]

\* _execute_retrieval and the retrieval_bundle artifact
RetrievalStep(r, evs, outcome) ==
    LET wf == get_workflow_profile(r.workflow_id)
        searches == <<"vector_search_completed", "document_search_completed">>
                      \o (IF wf.graph THEN <<"graph_search_completed">> ELSE <<>>)
    IN
    IF outcome = "raise"
    THEN \* doc_store.get_chunks raises after the vector search
         After(Failed(r, "retrieval"),
               EmitAll(evs, r.run_id, <<"vector_search_completed", "run_failed">>))
    ELSE \* a retriever whose collaborator fails returns an empty list
         After([r EXCEPT !.pc = "fusion", !.executed = @ \cup {"retrieval"},
                         !.errors = IF outcome = "swallowed"
                                    THEN @ \cup {"retrieval"} ELSE @,
                         !.faulted = @ \/ outcome = "swallowed"],
               EmitAll(evs, r.run_id, searches))

\* _execute_fusion and the fused_results artifact
FusionStep(r, evs, outcome) ==
    IF outcome = "raise"
    THEN After(Failed(r, "fusion"), EmitAll(evs, r.run_id, <<"run_failed">>))
    ELSE After([r EXCEPT !.pc = "context", !.executed = @ \cup {"fusion"}],
               EmitAll(evs, r.run_id, <<"fusion_completed">>))

\* compile_context and the context_pack artifact (query mode)
ContextStep(r, evs, outcome) ==
    IF outcome = "raise"
    THEN After(Failed(r, "context"), EmitAll(evs, r.run_id, <<"run_failed">>))
    ELSE After([r EXCEPT !.pc = "generation", !.executed = @ \cup {"context"}],
               EmitAll(evs, r.run_id, <<"context_compiled">>))

\* get_formatted_history and compile_context_with_chat (chat mode): the
\* context is compiled as in query mode, with the history tokens reserved
ContextChatStep(r, evs, outcome) ==
    IF outcome = "raise"
    THEN After(Failed(r, "context"), EmitAll(evs, r.run_id, <<"run_failed">>))
    ELSE After([r EXCEPT !.pc = "generation", !.executed = @ \cup {"context"}],
               EmitAll(evs, r.run_id, <<"context_compiled">>))

\* after generation: the judge starts, or the run completes without it
AfterGeneration(r, evs) ==
    IF get_workflow_profile(r.workflow_id).judge
    THEN After([r EXCEPT !.pc = "judge"],
               EmitAll(evs, r.run_id, <<"generation_completed", "judge_started">>))
    ELSE After([r EXCEPT !.pc = "save_events", !.decision = "SKIPPED"],
               EmitAll(evs, r.run_id, <<"generation_completed", "run_completed">>))

\* generate_answer and the answer artifact (query mode): a failure of the
\* LLM call is caught inside generate_answer, which returns a fallback answer
GenerationStep(r, evs, outcome) ==
    IF outcome = "raise"
    THEN After(Failed(r, "generation"), EmitAll(evs, r.run_id, <<"run_failed">>))
    ELSE AfterGeneration(
             [r EXCEPT !.executed = @ \cup {"generation"},
                       !.answer = IF outcome = "swallowed" THEN "fallback" ELSE "generated",
                       !.errors = IF outcome = "swallowed"
                                  THEN @ \cup {"generation"} ELSE @,
                       !.faulted = @ \/ outcome = "swallowed"],
             evs)

\* generate_answer_chat and the answer artifact (chat mode)
GenerationChatStep(r, evs, outcome) ==
    IF outcome = "raise"
    THEN After(Failed(r, "generation"), EmitAll(evs, r.run_id, <<"run_failed">>))
    ELSE AfterGeneration(
             [r EXCEPT !.executed = @ \cup {"generation"}, !.answer = "generated"],
             evs)

\* judge.evaluate, the judge_report artifact and the terminal event
JudgeStep(r, evs, outcome, rep) ==
    LET blocked == rep.decision = "FAIL_BLOCKED" IN
    IF outcome = "raise"
    THEN After(Failed(r, "judge"), EmitAll(evs, r.run_id, <<"run_failed">>))
    ELSE After([r EXCEPT !.pc = "save_events",
                         !.executed = @ \cup {"judge"},
                         !.decision = rep.decision,
                         !.blocked_by_judge = blocked,
                         !.report_returned = TRUE,
                         !.faulted = @ \/ \E i \in 1..Len(rep.checks) :
                                             rep.checks[i].status = "ERROR"],
               EmitAll(evs, r.run_id,
                       <<"judge_completed",
                         IF blocked THEN "run_blocked" ELSE "run_completed">>))

\* one stage of the run in slot s
Stage(s, nxt) ==
    /\ runs' = [runs EXCEPT ![s] = nxt.rec]
    /\ events' = nxt.evs
    /\ UNCHANGED <<sessions, files, nextRun, nextSid, env>>

Retrieval(s) ==
    /\ runs[s].pc = "retrieval"
    /\ \E outcome \in CatchingStageOutcomes :
         Stage(s, RetrievalStep(runs[s], events, outcome))

Fusion(s) ==
    /\ runs[s].pc = "fusion"
    /\ \E outcome \in StageOutcomes :
         Stage(s, FusionStep(runs[s], events, outcome))

Context(s) ==
    /\ runs[s].pc = "context"
    /\ runs[s].mode = "query"
    /\ \E outcome \in StageOutcomes :
         Stage(s, ContextStep(runs[s], events, outcome))

ContextChat(s) ==
    /\ runs[s].pc = "context"
    /\ runs[s].mode = "chat"
    /\ \E outcome \in StageOutcomes :
         Stage(s, ContextChatStep(runs[s], events, outcome))

Generation(s) ==
    /\ runs[s].pc = "generation"
    /\ runs[s].mode = "query"
    /\ \E outcome \in CatchingStageOutcomes :
         Stage(s, GenerationStep(runs[s], events, outcome))

GenerationChat(s) ==
    /\ runs[s].pc = "generation"
    /\ runs[s].mode = "chat"
    /\ \E outcome \in StageOutcomes :
         Stage(s, GenerationChatStep(runs[s], events, outcome))

Judge(s) ==
    /\ runs[s].pc = "judge"
    /\ \E outcome \in StageOutcomes, rep \in RunJudgeReports :
         /\ outcome = "raise" => rep.decision = "PASS"
         /\ Stage(s, JudgeStep(runs[s], events, outcome, rep))

\* the stages from retrieval to the terminal event, run without another
\* request being scheduled in between
Pipeline(s) ==
    /\ runs[s].pc = "retrieval"
    /\ \E o1 \in CatchingStageOutcomes, o2 \in StageOutcomes, o3 \in StageOutcomes,
          o4 \in CatchingStageOutcomes, o5 \in StageOutcomes, rep \in RunJudgeReports :
         LET chat == runs[s].mode = "chat"
             a == RetrievalStep(runs[s], events, o1)
             b == IF a.rec.pc = "fusion" THEN FusionStep(a.rec, a.evs, o2) ELSE a
             c == IF b.rec.pc # "context" THEN b
                  ELSE IF chat THEN ContextChatStep(b.rec, b.evs, o3)
                  ELSE ContextStep(b.rec, b.evs, o3)
             d == IF c.rec.pc # "generation" THEN c
                  ELSE IF chat THEN GenerationChatStep(c.rec, c.evs, o4)
                  ELSE GenerationStep(c.rec, c.evs, o4)
             e == IF d.rec.pc = "judge" THEN JudgeStep(d.rec, d.evs, o5, rep) ELSE d
         IN Stage(s, e)

\* the dict execute_run returns after the terminal event
ReturnedBlockedWithoutAnswer(r, turn_number) ==
    [r EXCEPT !.pc = "returned",
              !.status = IF r.blocked_by_judge THEN "blocked" ELSE "completed",
              !.turn_number = turn_number,
              !.answer_returned = ~r.blocked_by_judge]

Returned(r, turn_number) ==
    LET wf == get_workflow_profile(r.workflow_id)
        allow_blocked_answer == ~wf.fail_on_judge_block
        should_return_answer == (~r.blocked_by_judge) \/ allow_blocked_answer
    IN [r EXCEPT !.pc = "returned",
                 !.status = IF r.blocked_by_judge THEN "blocked" ELSE "completed",
                 !.turn_number = turn_number,
                 !.answer_returned = should_return_answer]

\* whether execute_run records the turn after the events were saved
RecordsTurnAlways(r) == r.mode = "chat"

RecordsTurn(r) == r.mode = "chat" /\ ~r.blocked_by_judge

\* _save_events after the terminal event, then the turn is recorded and
\* execute_run returns
SaveEvents(s) ==
    LET r == runs[s]
        session == get_session(sessions, r.session_id)
    IN
    /\ r.pc = "save_events"
    /\ \E ok \in IOOutcomes, tokens \in env.turn_tokens :
         IF ~ok
         THEN \* _save_events raises inside the try block
              /\ tokens = MaxTurnTokens
              /\ files' = files
              /\ sessions' = sessions
              /\ events' = EmitAll(events, r.run_id, <<"run_failed">>)
              /\ runs' = [runs EXCEPT ![s] =
                     [r EXCEPT !.pc = "save_failed", !.faulted = TRUE,
                               !.errors = @ \cup {"save_events"}]]
         ELSE /\ files' = [files EXCEPT ![s] = events]
              /\ IF RecordsTurn(r) /\ ~session.present
                 THEN \* add_turn raises ValueError
                      /\ tokens = MaxTurnTokens
                      /\ sessions' = sessions
                      /\ events' = EmitAll(events, r.run_id, <<"run_failed">>)
                      /\ runs' = [runs EXCEPT ![s] =
                             [r EXCEPT !.pc = "save_failed",
                                       !.errors = @ \cup {"add_turn"}]]
                 ELSE IF RecordsTurn(r)
                 THEN /\ sessions' = [sessions EXCEPT ![r.session_id] =
                                         add_turn_session(@, tokens)]
                      /\ events' = EmitAll(events, r.run_id, <<"chat_turn_added">>)
                      /\ runs' = [runs EXCEPT ![s] =
                             Returned([r EXCEPT !.executed = @ \cup {"add_turn"}],
                                      add_turn_session(session, tokens).total_turns)]
                 ELSE /\ tokens = MaxTurnTokens
                      /\ sessions' = sessions
                      /\ events' = events
                      /\ runs' = [runs EXCEPT ![s] = Returned(r, 0)]
    /\ UNCHANGED <<nextRun, nextSid, env>>

\* _save_events in the except-branch, then execute_run returns "failed"
SaveFailed(s) ==
    LET r == runs[s] IN
    /\ r.pc = "save_failed"
    /\ \E ok \in IOOutcomes :
         IF ok
         THEN /\ files' = [files EXCEPT ![s] = events]
              /\ runs' = [runs EXCEPT ![s] =
                     [r EXCEPT !.pc = "returned", !.status = "failed",
                               !.report_returned = FALSE]]
         ELSE \* the exception leaves execute_run
              /\ files' = files
              /\ runs' = [runs EXCEPT ![s] =
                     [r EXCEPT !.pc = "returned", !.status = "raised",
                               !.report_returned = FALSE,
                               !.errors = @ \cup {"save_events"}]]
    /\ UNCHANGED <<sessions, events, nextRun, nextSid, env>>

\* DELETE /chat/session/{session_id}
DeleteSession(sid) ==
    /\ sessions[sid].present
    /\ sessions' = delete_session(sessions, sid)
    /\ UNCHANGED <<events, files, runs, nextRun, nextSid, env>>

----------------------------------------------------------------------------
\* Specifications

\* no component is called on its own
CIdle ==
    /\ mgr = NoCall
    /\ fusion = [op |-> "none"]
    /\ pack = [op |-> "none"]
    /\ gen = [op |-> "none"]

\* the judge variables while no evaluation is modelled step by step
JIdle ==
    /\ jprofile = [c \in CheckNames |->
                     [enabled |-> FALSE, threshold |-> 7, hard_fail |-> FALSE]]
    /\ jphase = "idle"
    /\ jpending = {}
    /\ jgathered = [c \in Range(TierA) |-> NoResult]
    /\ check_results = <<>>
    /\ jerrored = {}
    /\ report = NoReport

\* Concurrent requests against one orchestrator.  The stages between two
\* accesses to the session table are one step (Pipeline), and collaborators
\* do not fail.
Init ==
    /\ JIdle
    /\ CIdle
    /\ RInit
    /\ env = [faults |-> FALSE, modes |-> {"query", "chat"}, workflow_ids |-> {"no_judge"},
              queries |-> {<<"q", "u", "i", "t">>, NormalQuery},
              session_ids |-> {0, 1}, turn_tokens |-> {MaxTurnTokens}]

Next ==
    \/ \E s \in Slots : StartRun(s) /\ UNCHANGED <<jvars, cvars>>
    \/ \E s \in Slots : EnterQuit(s) /\ UNCHANGED <<jvars, cvars>>
    \/ \E s \in Slots : EnterPipeline(s) /\ UNCHANGED <<jvars, cvars>>
    \/ \E s \in Slots : CompactDone(s) /\ UNCHANGED <<jvars, cvars>>
    \/ \E s \in Slots : Pipeline(s) /\ UNCHANGED <<jvars, cvars>>
    \/ \E s \in Slots : SaveEvents(s) /\ UNCHANGED <<jvars, cvars>>
    \/ \E s \in Slots : SaveFailed(s) /\ UNCHANGED <<jvars, cvars>>

Spec == Init /\ [][Next]_vars

\* One request at a time, stage by stage, with failing collaborators.
SeqSlot == "a"
Quiescent == \A s \in Slots : ~Running(s)

InitSeq == JIdle /\ CIdle /\ RInit /\ env = [faults |-> TRUE, modes |-> {"query", "chat"},
              workflow_ids |-> RequestWorkflowIds, queries |-> Queries,
              session_ids |-> 0..UnknownSid, turn_tokens |-> {MaxTurnTokens}]

NextSeq ==
    \/ StartRun(SeqSlot) /\ UNCHANGED <<jvars, cvars>>
    \/ EnterQuit(SeqSlot) /\ UNCHANGED <<jvars, cvars>>
    \/ EnterPipeline(SeqSlot) /\ UNCHANGED <<jvars, cvars>>
    \/ CompactDone(SeqSlot) /\ UNCHANGED <<jvars, cvars>>
    \/ Retrieval(SeqSlot) /\ UNCHANGED <<jvars, cvars>>
    \/ Fusion(SeqSlot) /\ UNCHANGED <<jvars, cvars>>
    \/ Context(SeqSlot) /\ UNCHANGED <<jvars, cvars>>
    \/ ContextChat(SeqSlot) /\ UNCHANGED <<jvars, cvars>>
    \/ Generation(SeqSlot) /\ UNCHANGED <<jvars, cvars>>
    \/ GenerationChat(SeqSlot) /\ UNCHANGED <<jvars, cvars>>
    \/ Judge(SeqSlot) /\ UNCHANGED <<jvars, cvars>>
    \/ SaveEvents(SeqSlot) /\ UNCHANGED <<jvars, cvars>>
    \/ SaveFailed(SeqSlot) /\ UNCHANGED <<jvars, cvars>>
    \/ \E sid \in SessionIds : Quiescent /\ DeleteSession(sid) /\ UNCHANGED <<jvars, cvars>>

SpecSeq == InitSeq /\ [][NextSeq]_vars

\* One judge evaluation.
InitJudge == JInit /\ CIdle /\ RInit /\ env = [faults |-> FALSE, modes |-> {}, workflow_ids |-> {}, queries |-> {},
              session_ids |-> {}, turn_tokens |-> {}]

NextJudge == JNext /\ UNCHANGED <<rvars, cvars>>

SpecJudge == InitJudge /\ [][NextJudge]_vars

TypeOK ==
    /\ jphase \in {"idle", "tierA", "compile", "done"} \cup Range(TierB)
    /\ nextRun \in 0..MaxRuns
    /\ nextSid \in 0..MaxSessions
    /\ \A s \in Slots : runs[s].run_id \in 0..MaxRuns

----------------------------------------------------------------------------
\* Chat session manager called on its own, one call at a time

\* the profiles passed to check_and_compact
ChatProfiles ==
    {[compaction_threshold_tokens |-> CompactionThreshold, max_history_turns |-> m] :
        m \in {MaxHistoryTurns, 2 * MaxHistoryTurns}}

\* tokens of one turn
TurnTokens == {1, MaxTurnTokens}

MgrFrame ==
    UNCHANGED <<jvars, events, files, runs, nextRun, env, fusion, pack, gen>>

\* create_session
MCreateSession ==
    /\ mgr.pc = "returned"
    /\ nextSid < MaxSessions
    /\ sessions' = create_session(sessions, nextSid + 1)
    /\ nextSid' = nextSid + 1
    /\ mgr' = [NoCall EXCEPT !.op = "create_session", !.sid = nextSid + 1,
                             !.table = sessions]
    /\ MgrFrame

\* turns added to the sessions of the table
RECURSIVE TurnsUpTo(_)
TurnsUpTo(sid) ==
    IF sid = 0 THEN 0 ELSE sessions[sid].total_turns + TurnsUpTo(sid - 1)

TurnsAdded == TurnsUpTo(MaxSessions)

\* add_turn: returns the turn number, or raises ValueError
MAddTurn(sid, tokens) ==
    LET session == get_session(sessions, sid)
        call == add_turn(sessions, sid, tokens)
    IN
    /\ mgr.pc = "returned"
    /\ sid \in SessionIds => sid <= nextSid
    /\ TurnsAdded < MaxTurns
    /\ ~session.present => tokens = 1
    /\ sessions' = call.sessions
    /\ mgr' = [NoCall EXCEPT !.op = "add_turn", !.sid = sid,
                             !.before = session, !.table = sessions,
                             !.tokens = tokens,
                             !.raised = call.raised,
                             !.turn_number = call.turn_number]
    /\ UNCHANGED nextSid
    /\ MgrFrame

\* check_and_compact up to its return or to the summarization call
MCheckAndCompact(sid, profile) ==
    LET session == get_session(sessions, sid)
        needs == session.present /\ needs_compaction_for(session, profile)
        keep == keep_turns_for(profile)
        call == [NoCall EXCEPT !.op = "check_and_compact", !.sid = sid,
                               !.profile = profile, !.before = session,
                               !.table = sessions]
    IN
    /\ mgr.pc = "returned"
    /\ sid \in SessionIds => sid <= nextSid
    /\ mgr' = IF needs /\ Len(session.turns) > keep
              THEN [call EXCEPT !.pc = "summarize",
                                !.to_summarize = DropLastN(session.turns, keep),
                                !.kept = LastN(session.turns, keep)]
              ELSE [call EXCEPT !.returned = needs]
    /\ UNCHANGED <<sessions, nextSid>>
    /\ MgrFrame

\* the summarization call of _compact_history returns (ok) or raises
MSummarized(ok) ==
    /\ mgr.pc = "summarize"
    /\ sessions' = [sessions EXCEPT ![mgr.sid] =
                       Compact(@, mgr.kept, mgr.to_summarize, ok)]
    /\ mgr' = [mgr EXCEPT !.pc = "returned", !.returned = TRUE, !.ok = ok]
    /\ UNCHANGED nextSid
    /\ MgrFrame

\* delete_session
MDeleteSession(sid) ==
    /\ mgr.pc = "returned"
    /\ sessions[sid].present
    /\ sessions' = delete_session(sessions, sid)
    /\ mgr' = [NoCall EXCEPT !.op = "delete_session", !.sid = sid, !.table = sessions]
    /\ UNCHANGED nextSid
    /\ MgrFrame

InitChat ==
    /\ JIdle
    /\ CIdle
    /\ RInit
    /\ env = [faults |-> TRUE, modes |-> {}, workflow_ids |-> {}, queries |-> {},
              session_ids |-> {}, turn_tokens |-> {}]

NextChat ==
    \/ MCreateSession
    \/ \E sid \in 1..UnknownSid, tokens \in TurnTokens : MAddTurn(sid, tokens)
    \/ \E sid \in 1..UnknownSid, profile \in ChatProfiles : MCheckAndCompact(sid, profile)
    \/ \E ok \in IOOutcomes : MSummarized(ok)
    \/ \E sid \in SessionIds : MDeleteSession(sid)

SpecChat == InitChat /\ [][NextChat]_vars


\* the same calls with a summarizer that always answers
InitChatSummarized ==
    /\ JIdle
    /\ CIdle
    /\ RInit
    /\ env = [faults |-> FALSE, modes |-> {}, workflow_ids |-> {}, queries |-> {},
              session_ids |-> {}, turn_tokens |-> {}]

SpecChatSummarized == InitChatSummarized /\ [][NextChat]_vars
----------------------------------------------------------------------------
\* Fusion: FusionModule.fuse_results as a function of its inputs

Chunks == 1..MaxChunks

\* metadata.doc_id of the chunks of the corpus; 0 stands for no doc_id
DocOfs ==
    {[c \in Chunks |-> 1],
     [c \in Chunks |-> IF c = MaxChunks THEN 2 ELSE 1],
     [c \in Chunks |-> IF c = 1 THEN 0 ELSE 1]}

\* metadata.text of the chunks; equal numbers are equal texts
TextOfs ==
    {[c \in Chunks |-> c],
     [c \in Chunks |-> IF c <= 2 THEN 1 ELSE c]}

\* the sequences of distinct chunks of length at most n
RECURSIVE Rankings(_)
Rankings(n) ==
    IF n = 0 THEN {<<>>}
    ELSE Rankings(n - 1) \cup
         {Append(s, c) : <<s, c>> \in
             {x \in Rankings(n - 1) \X Chunks :
                 Len(x[1]) = n - 1 /\ x[2] \notin Range(x[1])}}

\* VectorRetrievalModule.retrieve and GraphRetrievalModule.retrieve: the rank
\* of a result is its position in the returned list
Ranked(ranking) ==
    [i \in 1..Len(ranking) |-> [chunk_id |-> ranking[i], rank |-> i]]

\* DocumentRetrievalModule.retrieve: the rank is the position among the top
\* doc_k, and the results that do not match the filters are left out after
\* the ranks were given
RECURSIVE Filtered(_, _)
Filtered(results, matches) ==
    IF results = <<>> THEN <<>>
    ELSE (IF matches[Head(results).chunk_id] THEN <<Head(results)>> ELSE <<>>)
           \o Filtered(Tail(results), matches)

\* the FusionProfiles of the model; dedup_threshold in tenths
FusionProfiles ==
    {[vector_weight |-> s[1], document_weight |-> s[2], graph_weight |-> s[3],
      rrf_k |-> s[4],
      apply_diversity_constraints |-> v[1], max_chunks_per_doc |-> v[2],
      dedup_threshold |-> t[1], final_top_k |-> t[2]] :
        <<s, v, t>> \in
            {<<1, 1, 1, 60>>, <<2, 1, 0, 1>>}
              \X {<<TRUE, 1>>, <<TRUE, MaxChunks - 1>>, <<FALSE, 1>>}
              \X {<<9, MaxChunks>>, <<10, 1>>}}

\* the scores are kept as numerators over the common denominator of the
\* fractions 1/(rrf_k + rank)
RECURSIVE Denominator(_, _)
Denominator(k, rank) ==
    IF rank = 0 THEN 1 ELSE (k + rank) * Denominator(k, rank - 1)

\* weight / (profile.rrf_k + result.rank)
rrf_score_unweighted(weight, k, rank) ==
    Denominator(k, MaxChunks) \div (k + rank)

rrf_score(weight, k, rank) ==
    weight * (Denominator(k, MaxChunks) \div (k + rank))

\* one loop of fuse_results over the results of a modality: chunk_scores is
\* the dict as the sequence of its keys in insertion order and the rrf_score
\* of each key
RECURSIVE Accumulate(_, _, _, _)
Accumulate(chunk_scores, results, weight, k) ==
    IF results = <<>> THEN chunk_scores
    ELSE LET chunk_id == Head(results).chunk_id
             known == chunk_id \in Range(chunk_scores.keys)
             before == IF known THEN chunk_scores.rrf_score[chunk_id] ELSE 0
         IN Accumulate(
                [keys |-> IF known THEN chunk_scores.keys
                          ELSE Append(chunk_scores.keys, chunk_id),
                 rrf_score |-> [chunk_scores.rrf_score EXCEPT ![chunk_id] =
                                   before + rrf_score(weight, k, Head(results).rank)]],
                Tail(results), weight, k)

\* list.sort(key=rrf_score, reverse=True): stable, descending
RECURSIVE InsertByScore(_, _)
InsertByScore(sorted, result) ==
    IF sorted = <<>> THEN <<result>>
    ELSE IF Head(sorted).rrf_score >= result.rrf_score
         THEN <<Head(sorted)>> \o InsertByScore(Tail(sorted), result)
         ELSE <<result>> \o sorted

RECURSIVE SortByScore(_)
SortByScoreArrival(results) == results

SortByScore(results) ==
    IF results = <<>> THEN <<>>
    ELSE InsertByScore(SortByScore(SubSeq(results, 1, Len(results) - 1)),
                       results[Len(results)])

\* FusionModule._apply_diversity
RECURSIVE KeepPerDoc(_, _, _)
KeepPerDoc(results, max_per_doc, doc_counts) ==
    IF results = <<>> THEN <<>>
    ELSE LET result == Head(results)
             doc_id == result.doc_id
         IN IF doc_id = 0
            THEN <<result>> \o KeepPerDoc(Tail(results), max_per_doc, doc_counts)
            ELSE IF doc_counts[doc_id] < max_per_doc
            THEN <<result>> \o KeepPerDoc(Tail(results), max_per_doc,
                                          [doc_counts EXCEPT ![doc_id] = @ + 1])
            ELSE KeepPerDoc(Tail(results), max_per_doc, doc_counts)

apply_diversity_uncapped(results, max_per_doc) == results

apply_diversity(results, max_per_doc) ==
    KeepPerDoc(results, max_per_doc, [doc \in 1..MaxChunks |-> 0])

\* FusionModule._deduplicate
RECURSIVE KeepUnseen(_, _)
KeepUnseen(results, seen_texts) ==
    IF results = <<>> THEN <<>>
    ELSE LET result == Head(results) IN
         IF result.text = 0
         THEN <<result>> \o KeepUnseen(Tail(results), seen_texts)
         ELSE IF result.text \notin seen_texts
         THEN <<result>> \o KeepUnseen(Tail(results), seen_texts \cup {result.text})
         ELSE KeepUnseen(Tail(results), seen_texts)

deduplicate(results, threshold) ==
    IF threshold >= 10 THEN results ELSE KeepUnseen(results, {})

\* FusionModule.fuse_results
fuse_results(vector_results, document_results, graph_results, profile, doc_of, text_of) ==
    LET empty == [keys |-> <<>>, rrf_score |-> [c \in Chunks |-> 0]]
        after_vector == Accumulate(empty, vector_results,
                                   profile.vector_weight, profile.rrf_k)
        after_document == Accumulate(after_vector, document_results,
                                     profile.document_weight, profile.rrf_k)
        chunk_scores == Accumulate(after_document, graph_results,
                                   profile.graph_weight, profile.rrf_k)
        fused == [i \in 1..Len(chunk_scores.keys) |->
                     [chunk_id |-> chunk_scores.keys[i],
                      rrf_score |-> chunk_scores.rrf_score[chunk_scores.keys[i]],
                      doc_id |-> doc_of[chunk_scores.keys[i]],
                      text |-> text_of[chunk_scores.keys[i]],
                      final_rank |-> 0]]
        sorted == SortByScore(fused)
        diverse == IF profile.apply_diversity_constraints
                   THEN apply_diversity(sorted, profile.max_chunks_per_doc)
                   ELSE sorted
        deduped == deduplicate(diverse, profile.dedup_threshold)
        top == SubSeq(deduped, 1, Min(profile.final_top_k, Len(deduped)))
    IN [i \in 1..Len(top) |-> [top[i] EXCEPT !.final_rank = i]]

\* one call of fuse_results on the results of the three retrieval modules
FuseResults ==
    /\ fusion.op = "none"
    /\ \E vector \in {r \in Rankings(2) : \A i \in 1..Len(r) : r[i] = i},
          document \in Rankings(2),
          graph \in Rankings(1),
          filter \in {0, 1},
          doc_of \in DocOfs, text_of \in TextOfs, profile \in FusionProfiles :
         LET vector_results == Ranked(vector)
             document_results ==
                 Filtered(Ranked(document),
                          [c \in Chunks |-> filter = 0 \/ doc_of[c] = filter])
             graph_results == Ranked(graph)
         IN fusion' = [op |-> "fuse_results",
                       vector_results |-> vector_results,
                       document_results |-> document_results,
                       graph_results |-> graph_results,
                       profile |-> profile, doc_of |-> doc_of, text_of |-> text_of,
                       out |-> fuse_results(vector_results, document_results,
                                            graph_results, profile, doc_of, text_of)]
    /\ UNCHANGED <<jvars, rvars, mgr, pack, gen>>

NoRequests ==
    [faults |-> FALSE, modes |-> {}, workflow_ids |-> {}, queries |-> {},
     session_ids |-> {}, turn_tokens |-> {}]

InitFusion ==
    /\ JIdle
    /\ CIdle
    /\ RInit
    /\ env = NoRequests

NextFusion == FuseResults

SpecFusion == InitFusion /\ [][NextFusion]_vars

----------------------------------------------------------------------------
\* Context: ContextCompilerModule.compile_context as a function of its inputs

\* tokens of the stored text of a chunk; 0 stands for a chunk without text
TextTokens == {0, 1, 2}

\* the ContextProfiles of the model
ContextProfiles ==
    [max_context_tokens : {MaxContextTokens},
     reserve_tokens_for_query : {0, 1},
     reserve_tokens_for_instructions : {0, MaxContextTokens + 1},
     citation_format : {"inline", "detailed", "plain"},
     include_page_numbers : BOOLEAN,
     include_doc_metadata : {TRUE}]

\* _count_tokens of the chunk with its citation: the tokens of the text and
\* those of the citation put in front of it
CitationTokens(profile) ==
    CASE profile.citation_format = "inline" ->
             1 + (IF profile.include_page_numbers THEN 1 ELSE 0)
               + (IF profile.include_doc_metadata THEN 1 ELSE 0)
      [] profile.citation_format = "detailed" -> 5
      [] OTHER -> 0

\* the loop of _pack_chunks from position rank on
RECURSIVE PackFrom(_, _, _, _, _)
PackFromOverBudget(chunks, rank, budget, profile, packed) ==
    IF rank > Len(chunks) THEN packed
    ELSE LET chunk == chunks[rank]
             chunk_tokens == chunk.text_tokens + CitationTokens(profile)
         IN IF chunk.text_tokens = 0
            THEN PackFrom(chunks, rank + 1, budget, profile, packed)
            ELSE PackFrom(chunks, rank + 1, budget, profile,
                     [packed_chunks |-> Append(packed.packed_chunks,
                                           [chunk_id |-> chunk.chunk_id,
                                            rank |-> rank,
                                            tokens |-> chunk_tokens]),
                      context_parts |-> Append(packed.context_parts, rank),
                      total_tokens |-> packed.total_tokens + chunk_tokens])

PackFrom(chunks, rank, budget, profile, packed) ==
    IF rank > Len(chunks) THEN packed
    ELSE LET chunk == chunks[rank]
             chunk_tokens == chunk.text_tokens + CitationTokens(profile)
         IN IF chunk.text_tokens = 0
            THEN PackFrom(chunks, rank + 1, budget, profile, packed)
            ELSE IF packed.total_tokens + chunk_tokens > budget
            THEN packed
            ELSE PackFrom(chunks, rank + 1, budget, profile,
                     [packed_chunks |-> Append(packed.packed_chunks,
                                           [chunk_id |-> chunk.chunk_id,
                                            rank |-> rank,
                                            tokens |-> chunk_tokens]),
                      context_parts |-> Append(packed.context_parts, rank),
                      total_tokens |-> packed.total_tokens + chunk_tokens])

\* ContextCompilerModule._pack_chunks
pack_chunks(chunks, budget, profile) ==
    PackFrom(chunks, 1, budget, profile,
             [packed_chunks |-> <<>>, context_parts |-> <<>>, total_tokens |-> 0])

\* ContextCompilerModule.compile_context: the ContextPack; context_text is
\* kept as the sequence of its parts, which are joined by blank lines
compile_context_unreserved(chunks_with_text, profile) ==
    LET packed == pack_chunks(chunks_with_text, profile.max_context_tokens, profile)
    IN [context_text |-> packed.context_parts,
        chunks |-> packed.packed_chunks,
        token_budget |-> profile.max_context_tokens,
        tokens_used |-> packed.total_tokens]

compile_context(chunks_with_text, profile) ==
    LET available_tokens == profile.max_context_tokens
                              - profile.reserve_tokens_for_query
                              - profile.reserve_tokens_for_instructions
        packed == pack_chunks(chunks_with_text, available_tokens, profile)
    IN [context_text |-> packed.context_parts,
        chunks |-> packed.packed_chunks,
        token_budget |-> profile.max_context_tokens,
        tokens_used |-> packed.total_tokens]

\* one call of compile_context on a fused list and the texts of the store
CompileContext ==
    /\ pack.op = "none"
    /\ \E n \in 0..MaxChunks, text_tokens \in [Chunks -> TextTokens],
          profile \in ContextProfiles :
         LET chunks_with_text ==
                 [i \in 1..n |-> [chunk_id |-> i, text_tokens |-> text_tokens[i]]]
         IN pack' = [op |-> "compile_context",
                     chunks |-> chunks_with_text,
                     profile |-> profile,
                     out |-> compile_context(chunks_with_text, profile)]
    /\ UNCHANGED <<jvars, rvars, mgr, fusion, gen>>

InitContext ==
    /\ JIdle
    /\ CIdle
    /\ RInit
    /\ env = NoRequests

NextContext == CompileContext

SpecContext == InitContext /\ [][NextContext]_vars

----------------------------------------------------------------------------
\* Generation: GenerationModule._create_answer as a function of its inputs

\* the citations of the parsed LLM reply: chunk_id 0 stands for a missing
\* chunk_id key, MaxChunks + 1 for a chunk that exists nowhere; quote numbers
\* the citation within the reply; a citation that is not well formed makes
\* the Citation constructor raise
CitationData ==
    [chunk_id : 0..(MaxChunks + 1), well_formed : BOOLEAN]

RECURSIVE Replies(_)
Replies(n) ==
    IF n = 0 THEN {<<>>}
    ELSE Replies(n - 1) \cup
         {Append(s, c) : <<s, c>> \in
             {x \in Replies(n - 1) \X CitationData : Len(x[1]) = n - 1}}

\* GenerationModule._validate_citation
validate_citation_any(chunk_id, context_chunks) == TRUE

validate_citation(chunk_id, context_chunks) ==
    \E i \in 1..Len(context_chunks) : context_chunks[i].chunk_id = chunk_id

\* the citation loop of _create_answer from position i on
RECURSIVE ParseCitations(_, _, _, _)
ParseCitations(cit_data, i, context_chunks, citations) ==
    IF i > Len(cit_data) THEN [raised |-> FALSE, citations |-> citations]
    ELSE IF validate_citation(cit_data[i].chunk_id, context_chunks)
    THEN IF cit_data[i].well_formed
         THEN ParseCitations(cit_data, i + 1, context_chunks,
                  Append(citations, [chunk_id |-> cit_data[i].chunk_id, quote |-> i]))
         ELSE [raised |-> TRUE, citations |-> <<>>]
    ELSE ParseCitations(cit_data, i + 1, context_chunks, citations)

\* _create_answer, and _create_fallback_answer when it raises inside
\* generate_answer
create_answer(cit_data, context_chunks) ==
    LET parsed == ParseCitations(cit_data, 1, context_chunks, <<>>) IN
    IF parsed.raised
    THEN [citations |-> <<>>, fallback |-> TRUE]
    ELSE [citations |-> parsed.citations, fallback |-> FALSE]

\* one call of _create_answer on a parsed reply and a context pack
CreateAnswer ==
    /\ gen.op = "none"
    /\ \E cit_data \in Replies(MaxCitations), packed \in SUBSET Chunks :
         LET context_chunks ==
                 [i \in 1..Cardinality(packed) |->
                     [chunk_id |-> CHOOSE c \in packed :
                                       Cardinality({b \in packed : b < c}) = i - 1]]
         IN gen' = [op |-> "create_answer",
                    cit_data |-> cit_data,
                    context_chunks |-> context_chunks,
                    answer |-> create_answer(cit_data, context_chunks)]
    /\ UNCHANGED <<jvars, rvars, mgr, fusion, pack>>

InitGeneration ==
    /\ JIdle
    /\ CIdle
    /\ RInit
    /\ env = NoRequests

NextGeneration == CreateAnswer

SpecGeneration == InitGeneration /\ [][NextGeneration]_vars

----------------------------------------------------------------------------
\* Status readers

TerminalTypes == {"run_failed", "run_blocked", "run_completed", "chat_session_terminated"}

\* for event in reversed(events): the status of the first type the reader knows
RECURSIVE ScanReversed(_, _)
ScanReversed(evs, known) ==
    IF evs = <<>> THEN "unknown"
    ELSE LET t == evs[Len(evs)].event_type IN
         IF t \in DOMAIN known THEN known[t]
         ELSE ScanReversed(SubSeq(evs, 1, Len(evs) - 1), known)

\* RunOrchestrator.get_run
get_run(evs) ==
    ScanReversed(evs, ("run_failed" :> "failed") @@ ("run_blocked" :> "blocked")
                        @@ ("run_completed" :> "completed")
                        @@ ("chat_session_terminated" :> "terminated"))

\* GET /run/{run_id}
get_run_status(evs) ==
    ScanReversed(evs, ("run_failed" :> "failed") @@ ("run_blocked" :> "blocked")
                        @@ ("run_completed" :> "completed"))

\* GET /runs
list_runs(evs) ==
    ScanReversed(evs, ("run_failed" :> "failed") @@ ("run_blocked" :> "blocked")
                        @@ ("run_completed" :> "completed"))

----------------------------------------------------------------------------
\* Properties

StageNames == Range(Stages)

IndexOfStage(st) == CHOOSE i \in 1..Len(Stages) : Stages[i] = st

BlockedChatRun(r) ==
    r.pc = "returned" /\ r.mode = "chat" /\ r.decision = "FAIL_BLOCKED"

\* C1, as amended: a chat run whose judge decision is FAIL_BLOCKED appends no
\* turn and leaves total_turns and total_tokens of its session as they were
\* before the run, whatever the workflow; the retained turns are the ones
\* before the run, or their last keep_turns when the run's compaction check
\* shortened the history.
C1_BlockedRunRecordsNoTurn ==
    \A s \in Slots :
        LET r == runs[s] IN
        (BlockedChatRun(r) /\ sessions[r.session_id].present) =>
            LET session == sessions[r.session_id] IN
            /\ session.total_turns = r.pre.total_turns
            /\ session.total_tokens = r.pre.total_tokens
            /\ \/ session.turns = r.pre.turns
               \/ r.history_compacted /\ session.turns = LastN(r.pre.turns, keep_turns)

\* C1 as stated: after a blocked chat run the retained turns, total_turns and
\* total_tokens of the session are exactly what they were before the run.
C1_BlockedRunLeavesSession ==
    \A s \in Slots :
        LET r == runs[s] IN
        (BlockedChatRun(r) /\ sessions[r.session_id].present) =>
            LET session == sessions[r.session_id] IN
            /\ session.total_turns = r.pre.total_turns
            /\ session.total_tokens = r.pre.total_tokens
            /\ session.turns = r.pre.turns

\* a blocked chat run on a session with history has returned, under a
\* workflow that returns blocked answers
C1_Witness ==
    \E s \in Slots :
        /\ BlockedChatRun(runs[s])
        /\ runs[s].pre.total_turns >= 1
        /\ runs[s].answer_returned
        /\ sessions[runs[s].session_id].present

\* C2: in every report of the judge, decision is FAIL_BLOCKED exactly when
\* some check has status FAIL and is hard_fail; otherwise it is
\* FAIL_RETRYABLE when some check failed and PASS when none did.
C2_DecisionMatchesChecks ==
    report # NoReport =>
        LET cs == report.checks
            hard == \E i \in 1..Len(cs) : cs[i].status = "FAIL" /\ cs[i].hard_fail
            failed == \E i \in 1..Len(cs) : cs[i].status = "FAIL"
        IN
        /\ report.decision = "FAIL_BLOCKED" <=> hard
        /\ ~hard => report.decision = (IF failed THEN "FAIL_RETRYABLE" ELSE "PASS")

\* a report over a failed hard_fail check and another check that did not block
C2_Witness ==
    /\ report # NoReport
    /\ report.decision = "FAIL_BLOCKED"
    /\ \E i \in 1..Len(report.checks) :
         report.checks[i].status = "FAIL" /\ ~report.checks[i].hard_fail

\* C3: in every report of the judge, passed is true exactly when every check
\* has status PASS, and decision is PASS exactly when every check has status
\* PASS.
C3_PassedIffAllPass ==
    report # NoReport =>
        LET all_pass == \A i \in 1..Len(report.checks) :
                            report.checks[i].status = "PASS"
        IN
        /\ report.passed <=> all_pass
        /\ report.decision = "PASS" <=> all_pass

\* C4: a check whose evaluation failed with an error has status ERROR and
\* score 0, the decision of the report is not PASS, a violation is recorded for
\* it, and it blocks the run only if it is hard_fail.
C4_ErrorNeverPasses ==
    report # NoReport =>
        \A i \in 1..Len(report.checks) :
            LET result == report.checks[i] IN
            result.check_name \in jerrored =>
                /\ result.status = "ERROR"
                /\ result.score = 0
                /\ report.decision # "PASS"
                /\ \E v \in 1..Len(report.violations) :
                       report.violations[v].check_name = result.check_name
                /\ (\A j \in 1..Len(report.checks) :
                        j # i => report.checks[j].status = "PASS")
                     => (report.decision = "FAIL_BLOCKED" => result.hard_fail)

\* C5: a run in which an exception was raised inside a stage (and writing
\* the event log did not fail) has a RUN_FAILED event, returns status failed
\* without answer or judge report, and has executed no stage after the one
\* that failed.
C5_StageFailureFailsRun ==
    LET r == runs[SeqSlot] IN
    (r.pc = "returned" /\ r.errors # {} /\ r.errors \subseteq StageNames) =>
        /\ r.status = "failed"
        /\ ~r.answer_returned
        /\ ~r.report_returned
        /\ \E i \in 1..Len(events) : events[i] = Ev(r.run_id, "run_failed")
        /\ \A st \in r.errors \cap StageNames, ex \in r.executed \cap StageNames :
               IndexOfStage(ex) <= IndexOfStage(st)

PipelineOrder ==
    <<"run_started", "retrieval_started", "fusion_completed", "context_compiled",
      "generation_completed", "judge_started", "judge_completed">>

IsPipelineEvent(e) == e.event_type \in Range(PipelineOrder) \cup TerminalTypes

\* position of an event in the pipeline order; the terminal events come last
Rank(e) ==
    IF e.event_type \in TerminalTypes THEN Len(PipelineOrder) + 1
    ELSE CHOOSE i \in 1..Len(PipelineOrder) : PipelineOrder[i] = e.event_type

\* C6: the pipeline events of a run appear in pipeline order, each stage's
\* event directly after the event of the stage before it, the judge events
\* only when the workflow has the judge step, and then one terminal event;
\* without the judge step the decision is reported as SKIPPED.
C6_EventOrder ==
    LET r == runs[SeqSlot]
        p == SelectSeq(events, IsPipelineEvent)
        wf == get_workflow_profile(r.workflow_id)
    IN
    /\ \A i \in 1..(Len(p) - 1) : Rank(p[i]) < Rank(p[i + 1])
    /\ \A i \in 1..Len(p) :
           Rank(p[i]) <= Len(PipelineOrder) => Rank(p[i]) = i
    /\ \A i \in 1..Len(p) :
           p[i].event_type \in {"judge_started", "judge_completed"} => wf.judge
    /\ (r.pc = "returned" /\ r.status = "completed" /\ ~wf.judge) =>
           r.decision = "SKIPPED"

\* C7: every status reader reports, for the same persisted log, the status of
\* the most recent terminal event among failed, blocked, completed and
\* terminated, and "unknown" when there is none.
C7_ReadersAgree ==
    \A s \in Slots :
        files[s] # NoFile =>
            LET log == files[s]
                terminal == {i \in 1..Len(log) : log[i].event_type \in TerminalTypes}
                last == CHOOSE i \in terminal : \A j \in terminal : j <= i
                expected ==
                    IF terminal = {} THEN "unknown"
                    ELSE CASE log[last].event_type = "run_failed" -> "failed"
                           [] log[last].event_type = "run_blocked" -> "blocked"
                           [] log[last].event_type = "run_completed" -> "completed"
                           [] OTHER -> "terminated"
            IN
            /\ get_run(log) = expected
            /\ get_run_status(log) = expected
            /\ list_runs(log) = expected

\* C8: a chat run whose message is "quit" up to surrounding whitespace and
\* case, sent with the id of an active session, returns terminated, the
\* session is gone from the table, and no stage and no turn recording ran.
C8_QuitTerminates ==
    LET r == runs[SeqSlot] IN
    (r.pc = "returned" /\ r.mode = "chat" /\ r.query \in QuitQueries /\ r.pre.present) =>
        /\ r.status = "terminated"
        /\ ~sessions[r.req_session_id].present
        /\ r.executed = {}
        /\ r.turn_number = 0
        /\ \A i \in 1..Len(events) :
               events[i].event_type = "chat_session_terminated"

\* a padded, mixed-case quit has ended a session that had recorded a turn
C8_Witness ==
    LET r == runs[SeqSlot] IN
    /\ r.pc = "returned"
    /\ r.mode = "chat"
    /\ r.query = <<" ", "Q", "u", "I", "T", "\t">>
    /\ r.pre.present
    /\ r.pre.total_turns >= 1
    /\ r.status = "terminated"

\* C9: a chat run with a non-quit message in which no collaborator call failed
\* has executed retrieval, fusion, context compilation and generation and
\* returns completed or blocked; a completed run has recorded exactly one new
\* turn in its session and returns that turn's number, one more than the
\* number of turns recorded before it.
C9_ChatRunRecordsTurn ==
    LET r == runs[SeqSlot] IN
    (r.pc = "returned" /\ r.mode = "chat" /\ r.query \notin QuitQueries /\ ~r.faulted) =>
        /\ r.status \in {"completed", "blocked"}
        /\ {"retrieval", "fusion", "context", "generation"} \subseteq r.executed
        /\ r.status = "blocked" => r.turn_number = 0
        /\ r.status = "completed" =>
              /\ r.turn_number = r.pre.total_turns + 1
              /\ "add_turn" \in r.executed
              /\ sessions[r.session_id].present =>
                    LET session == sessions[r.session_id] IN
                    /\ session.total_turns = r.turn_number
                    /\ session.turns # <<>>
                    /\ session.turns[Len(session.turns)].turn_number = r.turn_number
                    /\ \A i \in 1..(Len(session.turns) - 1) :
                           session.turns[i].turn_number < r.turn_number

\* a completed chat run has returned turn number 2 after a compaction
C9_Witness ==
    LET r == runs[SeqSlot] IN
    /\ r.pc = "returned"
    /\ r.mode = "chat"
    /\ ~r.faulted
    /\ r.status = "completed"
    /\ r.turn_number >= 2
    /\ r.history_compacted

\* C10: a turn that is in the session when another request's compaction
\* finishes, and that this compaction did not observe, is still retained
\* afterwards, and the retained turns carry distinct turn numbers.
C10_NoLostUpdate ==
    [][\A s \in Slots :
          (runs[s].pc = "summarize" /\ runs'[s].pc = "retrieval"
             /\ sessions[runs[s].session_id].present) =>
              LET sid == runs[s].session_id
                  observed == Range(runs[s].kept) \cup Range(runs[s].to_summarize)
              IN
              /\ \A t \in Range(sessions[sid].turns) :
                     t \notin observed => t \in Range(sessions'[sid].turns)
              /\ \A i, j \in 1..Len(sessions'[sid].turns) :
                     i # j => sessions'[sid].turns[i].turn_number
                                # sessions'[sid].turns[j].turn_number]_vars


----------------------------------------------------------------------------
\* Chat session manager

\* a check_and_compact call has returned and its trigger held on entry
CompactionTriggered ==
    /\ mgr.op = "check_and_compact"
    /\ mgr.pc = "returned"
    /\ mgr.before.present
    /\ \/ history_tokens(mgr.before.turns) > mgr.profile.compaction_threshold_tokens
       \/ Len(mgr.before.turns) > mgr.profile.max_history_turns

\* C11 as amended: after a check_and_compact whose trigger held, the retained
\* turns are the most recent min(n, max(1, max_history_turns // 2)) of the n
\* turns held before; summary_covers_turns is exactly the numbers of the turns
\* removed when turns were removed and the summarization succeeded, and is
\* unchanged otherwise.
C11_CompactionKeepsRecent ==
    CompactionTriggered =>
        LET before == mgr.before
            after == sessions[mgr.sid]
            n == Len(before.turns)
            keep == Min(n, Max(1, mgr.profile.max_history_turns \div 2))
            removed == SubSeq(before.turns, 1, n - keep)
        IN
        /\ after.turns = SubSeq(before.turns, n - keep + 1, n)
        /\ after.summary_covers_turns =
              IF removed # <<>> /\ mgr.ok
              THEN [i \in 1..Len(removed) |-> removed[i].turn_number]
              ELSE before.summary_covers_turns

\* a compaction that removed turns and summarized them
C11_Witness ==
    /\ CompactionTriggered
    /\ Len(mgr.before.turns) > Max(1, mgr.profile.max_history_turns \div 2)
    /\ mgr.ok
    /\ sessions[mgr.sid].summary_covers_turns # <<>>

\* C11 as stated: after a check_and_compact whose trigger held, exactly
\* max(1, max_history_turns // 2) turns are retained, they are the most recent
\* ones, and summary_covers_turns is exactly the numbers of the turns removed.
C11_CompactionKeepsExactlyHalf ==
    CompactionTriggered =>
        LET before == mgr.before
            after == sessions[mgr.sid]
            n == Len(before.turns)
            keep == Max(1, mgr.profile.max_history_turns \div 2)
            removed == SubSeq(before.turns, 1, n - Len(after.turns))
        IN
        /\ Len(after.turns) = keep
        /\ after.turns = SubSeq(before.turns, n - keep + 1, n)
        /\ after.summary_covers_turns =
              [i \in 1..Len(removed) |-> removed[i].turn_number]

\* C12: check_and_compact returns true exactly when its trigger holds, and
\* after a true return the session has a summary or has lost older turns.
C12_TrueMeansCompacted ==
    (mgr.op = "check_and_compact" /\ mgr.pc = "returned") =>
        /\ mgr.returned <=> CompactionTriggered
        /\ mgr.returned =>
              \/ sessions[mgr.sid].summary # "None"
              \/ Len(sessions[mgr.sid].turns) < Len(mgr.before.turns)

\* C13: add_turn on a session that exists returns the previous total plus one
\* and appends exactly that turn; on an unknown session id it raises and the
\* table is unchanged; a session that has lost no turn holds turns 1..N in
\* order with total_turns = N.
C13_AddTurnCountsFromOne ==
    /\ (mgr.op = "add_turn" /\ ~mgr.before.present) =>
          mgr.raised /\ sessions = mgr.table
    /\ (mgr.op = "add_turn" /\ mgr.before.present) =>
          /\ ~mgr.raised
          /\ mgr.turn_number = mgr.before.total_turns + 1
          /\ sessions[mgr.sid].total_turns = mgr.turn_number
          /\ sessions[mgr.sid].turns =
                Append(mgr.before.turns,
                       [turn_number |-> mgr.turn_number, tokens |-> mgr.tokens])
          /\ \A other \in SessionIds \ {mgr.sid} : sessions[other] = mgr.table[other]
    /\ \A sid \in SessionIds :
          (sessions[sid].present /\ Len(sessions[sid].turns) = sessions[sid].total_turns) =>
              \A i \in 1..Len(sessions[sid].turns) : sessions[sid].turns[i].turn_number = i

\* the third add_turn in a row on a session that has lost no turn
C13_Witness ==
    /\ mgr.op = "add_turn"
    /\ ~mgr.raised
    /\ mgr.turn_number = 3
    /\ Len(sessions[mgr.sid].turns) = 3


----------------------------------------------------------------------------
\* Return value of execute_run

\* the run of the sequential slot has returned from the try block
ReturnedResult ==
    /\ runs[SeqSlot].pc = "returned"
    /\ runs[SeqSlot].status \in {"blocked", "completed"}

C15_UnknownProfileRejected ==
    LET r == runs[SeqSlot] IN
    r.workflow_id \notin DOMAIN Workflows =>
        /\ r.executed = {}
        /\ r.status \notin {"completed", "blocked"}

----------------------------------------------------------------------------
\* Chat session resolution

\* number of events of the given type in a list
RECURSIVE CountType(_, _)
CountType(evs, type) ==
    IF evs = <<>> THEN 0
    ELSE (IF Head(evs).event_type = type THEN 1 ELSE 0) + CountType(Tail(evs), type)

\* C16: when a chat run that is not a quit resolves its session, a fresh
\* session is created and CHAT_SESSION_CREATED emitted exactly when the
\* request carries no session id or one that is not in the table; an id that
\* resolves is reused and its session left as it is; either way the session
\* id of the run is a key of the table right after.
C16_SessionResolution ==
    [][LET r == runs[SeqSlot]
           after == runs'[SeqSlot]
           resolves == r.req_session_id \in SessionIds
                         /\ sessions[r.req_session_id].present
           created == CountType(events', "chat_session_created")
                        - CountType(events, "chat_session_created")
       IN
       (r.mode = "chat" /\ r.pc = "config_snapshot" /\ after.pc # "config_snapshot"
          /\ after.status # "terminated") =>
           /\ after.session_id \in SessionIds
           /\ sessions'[after.session_id].present
           /\ IF resolves
              THEN /\ after.session_id = r.req_session_id
                   /\ sessions' = sessions
                   /\ created = 0
              ELSE /\ ~sessions[after.session_id].present
                   /\ sessions' = [sessions EXCEPT ![after.session_id] = NewSession]
                   /\ created = 1]_vars

\* a chat run that carried the id of a session removed by an earlier quit
\* continues on a fresh session
C16_Witness ==
    /\ runs[SeqSlot].mode = "chat"
    /\ runs[SeqSlot].pc = "retrieval"
    /\ runs[SeqSlot].req_session_id \in SessionIds
    /\ ~sessions[runs[SeqSlot].req_session_id].present
    /\ runs[SeqSlot].session_id # runs[SeqSlot].req_session_id
    /\ sessions[runs[SeqSlot].session_id].present

----------------------------------------------------------------------------
\* Fusion

\* candidates of a fused list that carry the doc_id
SharingDoc(results, doc_id) == {i \in 1..Len(results) : results[i].doc_id = doc_id}

\* chunks of the three input lists that carry the doc_id
InputsOfDoc(doc_id) ==
    {c \in Chunks :
        /\ fusion.doc_of[c] = doc_id
        /\ \E results \in {fusion.vector_results, fusion.document_results,
                           fusion.graph_results} :
               \E i \in 1..Len(results) : results[i].chunk_id = c}

\* C17 as amended: under a profile with apply_diversity_constraints, the
\* output of fusion never contains more than max_chunks_per_doc candidates
\* sharing a doc_id.
C17_DiversityCapWhenApplied ==
    (fusion.op = "fuse_results" /\ fusion.profile.apply_diversity_constraints) =>
        \A doc_id \in 1..MaxChunks :
            Cardinality(SharingDoc(fusion.out, doc_id))
                <= fusion.profile.max_chunks_per_doc

\* the diversity pass dropped a candidate of a document over its cap and kept
\* as many as the cap allows
C17_Witness ==
    /\ fusion.op = "fuse_results"
    /\ fusion.profile.apply_diversity_constraints
    /\ \E doc_id \in 1..MaxChunks :
         /\ Cardinality(InputsOfDoc(doc_id)) > fusion.profile.max_chunks_per_doc
         /\ Cardinality(SharingDoc(fusion.out, doc_id))
              = fusion.profile.max_chunks_per_doc

\* C17 as stated: for every profile, the output of fusion never contains more
\* than max_chunks_per_doc candidates sharing a doc_id.
C17_DiversityCapAlways ==
    fusion.op = "fuse_results" =>
        \A doc_id \in 1..MaxChunks :
            Cardinality(SharingDoc(fusion.out, doc_id))
                <= fusion.profile.max_chunks_per_doc

\* weight_m / (k + rank_m) of chunk c in one modality over the common
\* denominator, zero when the chunk is absent from the modality
Contribution(results, weight, c) ==
    IF \E i \in 1..Len(results) : results[i].chunk_id = c
    THEN LET rank == (CHOOSE r \in Range(results) : r.chunk_id = c).rank IN
         (weight * Denominator(fusion.profile.rrf_k, MaxChunks))
             \div (fusion.profile.rrf_k + rank)
    ELSE 0

RankedFirst(results, c) ==
    \E i \in 1..Len(results) : results[i].chunk_id = c /\ results[i].rank = 1

\* C18: the fused score of every returned chunk is the sum over the
\* modalities in which it appears of weight_m / (k + rank_m); a chunk ranked 1
\* in all three modalities scores at least weight_m / (k + 1) for each
\* modality m, the score of a chunk ranked 1 in that modality only.
C18_FusedScoreIsWeightedRRF ==
    fusion.op = "fuse_results" =>
        \A i \in 1..Len(fusion.out) :
            LET c == fusion.out[i].chunk_id
                p == fusion.profile
            IN
            /\ fusion.out[i].rrf_score =
                  Contribution(fusion.vector_results, p.vector_weight, c)
                  + Contribution(fusion.document_results, p.document_weight, c)
                  + Contribution(fusion.graph_results, p.graph_weight, c)
            /\ (/\ RankedFirst(fusion.vector_results, c)
                /\ RankedFirst(fusion.document_results, c)
                /\ RankedFirst(fusion.graph_results, c)) =>
                  \A weight \in {p.vector_weight, p.document_weight, p.graph_weight} :
                      fusion.out[i].rrf_score * (p.rrf_k + 1)
                          >= weight * Denominator(p.rrf_k, MaxChunks)

\* a returned chunk ranked 1 in all three modalities, next to one that is in
\* one modality only, under unequal weights
C18_Witness ==
    /\ fusion.op = "fuse_results"
    /\ fusion.profile.vector_weight # fusion.profile.document_weight
    /\ \E i, j \in 1..Len(fusion.out) :
         /\ RankedFirst(fusion.vector_results, fusion.out[i].chunk_id)
         /\ RankedFirst(fusion.document_results, fusion.out[i].chunk_id)
         /\ RankedFirst(fusion.graph_results, fusion.out[i].chunk_id)
         /\ fusion.out[j].rrf_score > 0
         /\ fusion.out[j].rrf_score < fusion.out[i].rrf_score

----------------------------------------------------------------------------
\* Context packing

RECURSIVE TokensOf(_)
TokensOf(chunks) ==
    IF chunks = <<>> THEN 0 ELSE Head(chunks).tokens + TokensOf(Tail(chunks))

\* C19: every ContextPack has tokens_used <= token_budget and tokens_used
\* equal to the sum of the token counts of its packed chunks; an empty
\* candidate list gives tokens_used 0 and an empty context text.
C19_PackWithinBudget ==
    pack.op = "compile_context" =>
        /\ pack.out.tokens_used <= pack.out.token_budget
        /\ pack.out.tokens_used = TokensOf(pack.out.chunks)
        /\ pack.chunks = <<>> =>
              pack.out.tokens_used = 0 /\ pack.out.context_text = <<>>

\* the budget stopped the packing: a chunk with text was left out after
\* others were packed, under a profile with a reserve
C19_Witness ==
    /\ pack.op = "compile_context"
    /\ pack.profile.reserve_tokens_for_query > 0
    /\ pack.out.tokens_used > 0
    /\ \E i \in 1..Len(pack.chunks) :
         /\ pack.chunks[i].text_tokens > 0
         /\ \A j \in 1..Len(pack.out.chunks) : pack.out.chunks[j].chunk_id # i

----------------------------------------------------------------------------
\* Generation

\* C20: every citation of the Answer names a chunk of the ContextPack given
\* to the call, and the citations kept are citations of the reply in their
\* order in the reply.
C20_CitationsFromContext ==
    gen.op = "create_answer" =>
        LET citations == gen.answer.citations
            packed == {gen.context_chunks[i].chunk_id : i \in 1..Len(gen.context_chunks)}
        IN
        /\ \A i \in 1..Len(citations) :
              /\ citations[i].chunk_id \in packed
              /\ citations[i].quote \in 1..Len(gen.cit_data)
              /\ gen.cit_data[citations[i].quote].chunk_id = citations[i].chunk_id
        /\ \A i, j \in 1..Len(citations) :
              i < j => citations[i].quote < citations[j].quote

\* a reply whose first citation names a chunk outside the context and whose
\* second one names a packed chunk: only the second is kept
C20_Witness ==
    /\ gen.op = "create_answer"
    /\ Len(gen.cit_data) = 2
    /\ \A i \in 1..Len(gen.context_chunks) :
          gen.context_chunks[i].chunk_id # gen.cit_data[1].chunk_id
    /\ Len(gen.answer.citations) = 1
    /\ gen.answer.citations[1].quote = 2

----------------------------------------------------------------------------
\* Judge tiers

\* check c has returned its CheckResult to evaluate
JFinished(c) ==
    \/ c \in Range(TierA) /\ jgathered[c] # NoResult
    \/ \E i \in 1..Len(check_results) : check_results[i].check_name = c

\* check c has been started: its coroutine runs or has returned
JStarted(c) == c \in jpending \/ JFinished(c)

\* C21: a tier-B check is started only when every enabled tier-A check and
\* every enabled tier-B check before it has finished, so at most one tier-B
\* check runs at a time and none runs next to a tier-A check.
C21_TierBAfterTierA ==
    \A c \in Range(TierB) :
        JStarted(c) =>
            /\ jprofile[c].enabled
            /\ \A a \in Range(TierA) : jprofile[a].enabled => JFinished(a)
            /\ \A b \in Range(TierB) :
                  (jprofile[b].enabled /\ IndexB(b) < IndexB(c)) => JFinished(b)
            /\ c \in jpending => jpending = {c}

\* a tier-B check runs alone after the other enabled check, of tier A or
\* earlier in tier B, has returned
C21_Witness ==
    \E c \in Range(TierB), x \in CheckNames :
        /\ x # c
        /\ jpending = {c}
        /\ jprofile[x].enabled
        /\ JFinished(x)

\* positions of the results of check c in a list of CheckResults
ResultsOf(results, c) == {i \in 1..Len(results) : results[i].check_name = c}

\* C22: a tier-A check that has returned has handed its CheckResult to the
\* gather whatever its siblings did, and the report of a finished evaluation
\* holds exactly one CheckResult for every enabled check and none for a
\* disabled one, whatever subset of checks raised.
C22_OneResultPerEnabledCheck ==
    /\ \A a \in Range(TierA) :
          (jprofile[a].enabled /\ jphase # "idle" /\ a \notin jpending) =>
              jgathered[a].check_name = a
    /\ \A c \in CheckNames :
          Cardinality(ResultsOf(check_results, c)) <= 1
    /\ jphase = "done" =>
          /\ report # NoReport
          /\ report.checks = check_results
          /\ \A c \in CheckNames :
                Cardinality(ResultsOf(report.checks, c)) =
                    IF jprofile[c].enabled THEN 1 ELSE 0

\* a finished evaluation in which a tier-A check raised and its tier-A
\* sibling returned a score: the report holds both results
C22_Witness ==
    /\ jphase = "done"
    /\ \E a, b \in Range(TierA) :
         /\ a # b
         /\ \E i \in 1..Len(report.checks) :
               report.checks[i].check_name = a /\ report.checks[i].status = "ERROR"
         /\ \E i \in 1..Len(report.checks) :
               report.checks[i].check_name = b /\ report.checks[i].status = "PASS"

\* the candidates of the compile_context call that have text, in rank order
RECURSIVE WithText(_)
WithText(chunks) ==
    IF chunks = <<>> THEN <<>>
    ELSE (IF Head(chunks).text_tokens > 0 THEN <<Head(chunks).chunk_id>> ELSE <<>>)
           \o WithText(Tail(chunks))

PackedIds == [i \in 1..Len(pack.out.chunks) |-> pack.out.chunks[i].chunk_id]

AvailableBudget ==
    pack.profile.max_context_tokens - pack.profile.reserve_tokens_for_query
        - pack.profile.reserve_tokens_for_instructions

\* tokens of the candidate with the given chunk_id, with its citation
UnitTokens(chunk_id) ==
    LET chunk == CHOOSE c \in Range(pack.chunks) : c.chunk_id = chunk_id IN
    chunk.text_tokens
      + (CASE pack.profile.citation_format = "inline" ->
                  1 + (IF pack.profile.include_page_numbers THEN 1 ELSE 0)
                    + (IF pack.profile.include_doc_metadata THEN 1 ELSE 0)
           [] pack.profile.citation_format = "detailed" -> 5
           [] OTHER -> 0)

\* C23 as amended: candidates without text are passed over, and the packed
\* chunks are a prefix of the rank-ordered candidates that have text; the
\* prefix stays within the available budget and ends at the first candidate
\* with text that would push the total over it, so no candidate ranked below
\* that one is packed.
C23_PackedPrefixOfTextCandidates ==
    pack.op = "compile_context" =>
        LET with_text == WithText(pack.chunks)
            n == Len(pack.out.chunks)
        IN
        /\ n <= Len(with_text)
        /\ PackedIds = SubSeq(with_text, 1, n)
        /\ pack.out.tokens_used <= Max(AvailableBudget, 0)
        /\ n < Len(with_text) =>
              pack.out.tokens_used + UnitTokens(with_text[n + 1]) > AvailableBudget

\* packing stopped at a unit over the budget although a lower-ranked
\* candidate would have fitted
C23_Witness ==
    /\ pack.op = "compile_context"
    /\ Len(pack.out.chunks) > 0
    /\ \E i \in 1..Len(pack.chunks) :
         /\ i > Len(pack.out.chunks) + 1
         /\ pack.chunks[i].text_tokens > 0
         /\ pack.out.tokens_used + UnitTokens(pack.chunks[i].chunk_id) <= AvailableBudget
         /\ \A j \in 1..Len(pack.out.chunks) : pack.out.chunks[j].chunk_id # i

\* C23 as stated: the packed chunks are a prefix of the rank-ordered
\* candidates.
C23_PackedPrefixOfCandidates ==
    pack.op = "compile_context" =>
        LET n == Len(pack.out.chunks) IN
        /\ n <= Len(pack.chunks)
        /\ PackedIds = [i \in 1..n |-> pack.chunks[i].chunk_id]

\* ---------------------------------------------------------------------
\* C24: the list returned by fusion is sorted by fused score in
\* non-increasing order, holds at most final_top_k candidates with
\* pairwise distinct chunk_ids, and its final_rank values are 1..n in list
\* order; three empty input lists give an empty list.
FusionInputIds ==
    {fusion.vector_results[i].chunk_id : i \in 1..Len(fusion.vector_results)}
    \cup {fusion.document_results[i].chunk_id : i \in 1..Len(fusion.document_results)}
    \cup {fusion.graph_results[i].chunk_id : i \in 1..Len(fusion.graph_results)}

C24_FusedListWellFormed ==
    fusion.op = "fuse_results" =>
        LET out == fusion.out
            n == Len(out)
        IN /\ \A i \in 1..(n - 1) : out[i].rrf_score >= out[i + 1].rrf_score
           /\ n <= fusion.profile.final_top_k
           /\ \A i, j \in 1..n : out[i].chunk_id = out[j].chunk_id => i = j
           /\ \A i \in 1..n : out[i].final_rank = i
           /\ FusionInputIds = {} => out = <<>>

\* A fusion whose first two results have different scores and whose best
\* result is not the chunk that arrived first.
C24_Witness ==
    /\ fusion.op = "fuse_results"
    /\ Len(fusion.out) >= 2
    /\ fusion.out[1].rrf_score > fusion.out[2].rrf_score
    /\ fusion.vector_results # <<>>
    /\ fusion.vector_results[1].chunk_id # fusion.out[1].chunk_id

\* ---------------------------------------------------------------------
\* C25: when the summarization call of a compaction fails, check_and_compact
\* still returns without raising, the session keeps only its most recent
\* max(1, max_history_turns // 2) turns, and summary and
\* summary_covers_turns keep the values they had before the call.
SummarizationFailed ==
    mgr.op = "check_and_compact" /\ mgr.pc = "returned" /\ ~mgr.ok

C25_FailedSummaryDropsOldTurns ==
    SummarizationFailed =>
        LET after == sessions[mgr.sid]
            keep == Max(1, mgr.profile.max_history_turns \div 2)
        IN /\ ~mgr.raised
           /\ mgr.returned
           /\ after.present
           /\ after.turns = LastN(mgr.before.turns, keep)
           /\ Len(after.turns) = keep
           /\ after.summary = mgr.before.summary
           /\ after.summary_covers_turns = mgr.before.summary_covers_turns
           /\ after.total_turns = mgr.before.total_turns
           /\ \A sid \in SessionIds \ {mgr.sid} : sessions[sid] = mgr.table[sid]

\* A failed summarization in a session that an earlier compaction had
\* already summarized.
C25_Witness ==
    /\ SummarizationFailed
    /\ mgr.before.summary_covers_turns # <<>>
    /\ mgr.before.summary # NoSession.summary
    /\ Len(mgr.before.turns) > Len(sessions[mgr.sid].turns)

\* ---------------------------------------------------------------------
\* C26: as long as every summarization succeeds, every turn number from 1
\* to total_turns of a session is the number of a retained turn or a
\* member of summary_covers_turns, the two sets are disjoint, and both
\* lists are strictly increasing.
StrictlyIncreasing(numbers) ==
    \A i \in 1..(Len(numbers) - 1) : numbers[i] < numbers[i + 1]

C26_TurnsRetainedOrCovered ==
    \A sid \in SessionIds : sessions[sid].present =>
        LET retained == TurnNumbers(sessions[sid].turns)
            covered == sessions[sid].summary_covers_turns
        IN /\ 1..sessions[sid].total_turns \subseteq Range(retained) \cup Range(covered)
           /\ Range(retained) \cap Range(covered) = {}
           /\ StrictlyIncreasing(retained)
           /\ StrictlyIncreasing(covered)

\* ---------------------------------------------------------------------
\* C27: the event log of a run, in memory and as persisted, contains at
\* most one terminal event (run_completed, run_blocked, run_failed,
\* chat_session_terminated).
TerminalCount(log, rid) ==
    Cardinality({i \in 1..Len(log) :
                    log[i].run_id = rid /\ log[i].event_type \in TerminalTypes})

C27_AtMostOneTerminalEvent ==
    \A rid \in 1..nextRun :
        /\ TerminalCount(events, rid) <= 1
        /\ \A s \in Slots : TerminalCount(files[s], rid) <= 1

\* ---------------------------------------------------------------------
\* C28: for every run that has returned, the status returned by execute_run
\* equals the status get_run derives from the persisted event log of the
\* run.
C28_ReturnedStatusIsPersistedStatus ==
    \A s \in Slots :
        (runs[s].pc = "returned"
            /\ runs[s].status \in {"completed", "blocked", "failed", "terminated"}) =>
                get_run(files[s]) = runs[s].status

\* ---------------------------------------------------------------------
\* C29: when execute_run returns, the persisted log of the run holds every
\* event emitted for that run, in the order of emission.
EventsOf(log, rid) ==
    LET Own(event) == event.run_id = rid
    IN SelectSeq(log, Own)

C29_PersistedLogIsComplete ==
    LET r == runs[SeqSlot] IN
    (r.pc = "returned"
        /\ r.status \in {"completed", "blocked", "failed", "terminated"}) =>
            EventsOf(files[SeqSlot], r.run_id) = EventsOf(events, r.run_id)

\* ---------------------------------------------------------------------
\* C30: with execute_run calls interleaved, the persisted log of each run
\* holds events of that run only, from its run_started on.
C30_LogHoldsOwnEvents ==
    \A s \in Slots :
        files[s] # NoFile =>
            /\ \A i \in 1..Len(files[s]) : files[s][i].run_id = runs[s].run_id
            /\ \E i \in 1..Len(files[s]) : files[s][i] = Ev(runs[s].run_id, "run_started")
====
